---- MODULE Spec2Model ----
(***************************************************************************)
(* analysis/prepare.py of covid-rs: prepare_region (age re-bucketing, case *)
(* curve reconstruction and boundary cleaning, conf.toml), prepare_all     *)
(* (sequential preparation, then a thread pool of run_simulation tasks)    *)
(* and run_simulation (external executable, post-processing of             *)
(* epicurve.csv).                                                          *)
(*                                                                         *)
(* Python indices are 0-based, TLA+ sequences 1-based: At(s, i) is s[i] of *)
(* the Python source.  Floating point is modelled by exact integer         *)
(* arithmetic on data whose window means are whole numbers; the IFR is a   *)
(* fraction <<numerator, denominator>>.                                    *)
(***************************************************************************)
EXTENDS Integers, Sequences, FiniteSets, TLC

VARIABLES
    states,     \* mundi.regions(type="state", country="BR"): a set of region ids
    catalog,    \* region id -> data the external collaborators hold for it
    pc,         \* position of the main thread
    k,          \* 1-based position of the for loop in sorted(states)
    paths,      \* prepare_all's list of prepared directories
    frame,      \* region id -> locals of the last prepare_region call
    conf,       \* region id -> content of <dir>/conf.toml, or NoFile
    futures,    \* the executor's work queue, in submission order
    task,       \* region id -> state of its run_simulation future
    exit_code,  \* region id -> exit status of the executable, or NotRun
    csv         \* region id -> content of <dir>/epicurve.csv, or NoFile

vars == <<states, catalog, pc, k, paths, frame, conf, futures, task, exit_code, csv>>

----------------------------------------------------------------------------
(* Bounds of the model *)

MaxValid == 11      \* longest run of full smoothing windows in a death series
MaxBins == 19       \* longest age histogram
MaxDays == 3        \* longest simulation output
MaxCount == 2       \* largest compartment value in a simulation output
NumRegions == 3     \* regions in a batch
MaxWorkers == 2     \* threads of the pool

----------------------------------------------------------------------------
(* Python and pandas primitives used by the source *)

Min(a, b) == IF a < b THEN a ELSE b
Max(a, b) == IF a > b THEN a ELSE b

At(s, i) == s[i + 1]

RECURSIVE Sum(_)
Sum(s) == IF s = << >> THEN 0 ELSE Head(s) + Sum(Tail(s))

\* a slice bound as Python normalises it for a sequence of length len
SliceBound(x, len) == IF x < 0 THEN Max(x + len, 0) ELSE Min(x, len)

\* s[start:stop]
PySlice(s, start, stop) ==
    SubSeq(s, SliceBound(start, Len(s)) + 1, SliceBound(stop, Len(s)))

\* s[start:stop:2] for 0 <= start <= stop
PyStep2(s, start, stop) ==
    LET hi == Min(stop, Len(s))
        cnt == IF hi > start THEN (hi - start + 1) \div 2 ELSE 0
    IN  [p \in 1..cnt |-> At(s, start + 2 * (p - 1))]

\* a missing value of a pandas series; a present value x is <<x>>
NaN == << >>

\* Diff with the first value kept as the first difference
DiffKeepFirst(x) ==
    [p \in 1..Len(x) |-> IF p = 1 THEN <<x[1]>> ELSE <<x[p] - x[p - 1]>>]

\* Series.diff(): the first position has no predecessor
Diff(x) == [p \in 1..Len(x) |-> IF p = 1 THEN NaN ELSE <<x[p] - x[p - 1]>>]

\* Series.fillna(0).astype("int")
Fillna0(x) == [p \in 1..Len(x) |-> IF x[p] = NaN THEN 0 ELSE x[p][1]]

\* Series.fillna(method="bfill"): the next present value, if any
RECURSIVE NextValid(_, _)
NextValid(x, p) ==
    IF p > Len(x) THEN NaN
    ELSE IF x[p] # NaN THEN x[p] ELSE NextValid(x, p + 1)

Bfill(x) == [p \in 1..Len(x) |-> NextValid(x, p)]

\* Series.dropna()
Dropna(x) == SelectSeq(x, LAMBDA v : v # NaN)

----------------------------------------------------------------------------
(* prepare_region *)

WINDOW_SIZE == 14

AGE_BINS == 18

num_iter == 60

\* a file that does not exist
NoFile == [exists |-> FALSE]

\* curve["deaths"].rolling(WINDOW_SIZE, center=True, win_type="triang").mean():
\* a window mean exists only where the whole window fits; the centred window
\* of position p covers p - WINDOW_SIZE \div 2 .. p + (WINDOW_SIZE - 1) \div 2.
\* means holds the window means that exist, in order.
Rolling(means) ==
    LET lead == WINDOW_SIZE \div 2
        trail == (WINDOW_SIZE - 1) \div 2
    IN  [p \in 1..lead |-> NaN]
        \o [p \in 1..Len(means) |-> <<means[p]>>]
        \o [p \in 1..trail |-> NaN]

\* (deaths / params.IFR).astype("int"), IFR = <<numerator, denominator>>
EstimateCases(deaths, IFR) ==
    [p \in 1..Len(deaths) |-> (deaths[p][1] * IFR[2]) \div IFR[1]]

\* Rebucket without the bins past AGE_BINS added to the last bucket
RebucketNoFold(values) ==
    LET evens == PyStep2(values, 0, AGE_BINS)
        odds == PyStep2(values, 1, AGE_BINS)
    IN  IF Len(odds) # Len(evens)
        THEN [error |-> "ValueError", distrib |-> << >>]
        ELSE [error |-> "none",
              distrib |-> [p \in 1..Len(evens) |-> evens[p] + odds[p]]]

\* The age distribution folded into buckets of two bins.  numpy adds the odd
\* bins in place, which needs as many odd bins as even ones (or a single one).
Rebucket(values) ==
    LET evens == PyStep2(values, 0, AGE_BINS)
        odds == PyStep2(values, 1, AGE_BINS)
        paired == [p \in 1..Len(evens) |->
                      evens[p] + (IF Len(odds) = 1 THEN odds[1] ELSE odds[p])]
        rest == Sum(PySlice(values, AGE_BINS, Len(values)))
    IN  IF Len(odds) # Len(evens) /\ Len(odds) # 1
        THEN [error |-> "ValueError", distrib |-> << >>]
        ELSE IF Len(evens) = 0
        THEN [error |-> "IndexError", distrib |-> << >>]
        ELSE [error |-> "none",
              distrib |-> [p \in 1..Len(paired) |->
                              paired[p] + (IF p = Len(paired) THEN rest ELSE 0)]]

\* while epicurve[i] == 0: i += 1.  The result Len(epicurve) stands for the
\* IndexError numpy raises when the scan reads past the end.
RECURSIVE ScanUp(_, _)
ScanUp(epicurve, i) ==
    IF i >= Len(epicurve) THEN Len(epicurve)
    ELSE IF At(epicurve, i) = 0 THEN ScanUp(epicurve, i + 1) ELSE i

\* while epicurve[j] == 0: j -= 1.  numpy reads a negative index from the end;
\* a result below -Len(epicurve) stands for the IndexError.
RECURSIVE ScanDown(_, _)
ScanDown(epicurve, j) ==
    IF j < 0 - Len(epicurve) THEN j
    ELSE IF At(epicurve, IF j < 0 THEN j + Len(epicurve) ELSE j) = 0
         THEN ScanDown(epicurve, j - 1)
         ELSE j

\* CleanEpicurve with the truncation at j instead of j - WINDOW_SIZE \div 2
CleanEpicurveAtJ(epicurve, i, j) ==
    LET len == Len(epicurve)
        positions == [p \in 1..len |-> p - 1]
        n == len - j - 1
        truncated == IF n # 0 THEN PySlice(positions, 0, j) ELSE positions
        kept == PySlice(truncated, i, j)
    IN  [n |-> n,
         delay |-> IF n # 0 THEN n + WINDOW_SIZE \div 2 ELSE n,
         kept |-> kept,
         data |-> [p \in 1..Len(kept) |-> At(epicurve, kept[p])]]

\* The tail of prepare_region: n, the truncation and the final slice.  kept
\* lists the positions of epicurve that the emitted data come from.
CleanEpicurve(epicurve, i, j) ==
    LET len == Len(epicurve)
        positions == [p \in 1..len |-> p - 1]
        n == len - j - 1
        truncated == IF n # 0
                     THEN PySlice(positions, 0, j - WINDOW_SIZE \div 2)
                     ELSE positions
        kept == PySlice(truncated, i, j)
    IN  [n |-> n,
         delay |-> IF n # 0 THEN n + WINDOW_SIZE \div 2 ELSE n,
         kept |-> kept,
         data |-> [p \in 1..Len(kept) |-> At(epicurve, kept[p])]]

\* The locals of a call that raised; i and j are -1 while unassigned.
Raised(error, distrib, cases, epicurve, i, j) ==
    [error |-> error, distrib |-> distrib, cases |-> cases,
     epicurve |-> epicurve, i |-> i, j |-> j, n |-> -1, kept |-> << >>,
     data |-> << >>, delay |-> -1, attack |-> << >>]

\* prepare_region(path, region): the locals when the call returns or raises.
\* conf.toml is written exactly when error = "none".
PrepareRegion(region) ==
    LET age == Rebucket(region.age_distribution)
        deaths == Dropna(Bfill(Rolling(region.window_means)))
        cases == EstimateCases(deaths, region.IFR)
        epicurve == Fillna0(Diff(cases))
        i == ScanUp(epicurve, 0)
        j == ScanDown(epicurve, Len(epicurve) - 1)
        clean == CleanEpicurve(epicurve, i, j)
    IN  IF age.error # "none"
        THEN Raised(age.error, << >>, << >>, << >>, -1, -1)
        ELSE IF cases = << >>
        THEN Raised("IndexError", age.distrib, cases, epicurve, -1, -1)
        ELSE IF i >= Len(epicurve)
        THEN Raised("IndexError", age.distrib, cases, epicurve,
                    i, Len(epicurve) - 1)
        ELSE IF j < 0 - Len(epicurve)
        THEN Raised("IndexError", age.distrib, cases, epicurve, i, j)
        ELSE [error |-> "none", distrib |-> age.distrib, cases |-> cases,
              epicurve |-> epicurve, i |-> i, j |-> j, n |-> clean.n,
              kept |-> clean.kept, data |-> clean.data, delay |-> clean.delay,
              attack |-> <<100 * cases[Len(cases)], region.population>>]

\* TOML_TEMPLATE.format(...): the fields of conf.toml that vary
ConfToml(f) ==
    [num_iter |-> num_iter, pop_counts |-> f.distrib, delay |-> f.delay,
     attack_rate |-> f.attack, epicurve_data |-> f.data]

NotCalled == Raised("not called", << >>, << >>, << >>, -1, -1)

----------------------------------------------------------------------------
(* run_simulation *)

NotRun == -1

\* PostProcess with new_cases not negated
PostProcessUnsigned(res) ==
    [S |-> res.S, D |-> res.D,
     new_cases |-> Fillna0(Diff(res.S)),
     new_deaths |-> Fillna0(Diff(res.D)),
     cases |-> [p \in 1..Len(res.S) |-> res.S[1] - res.S[p]],
     deaths |-> [p \in 1..Len(res.D) |-> res.D[p] - res.D[1]]]

\* The post-processing of epicurve.csv: the derived columns
PostProcess(res) ==
    LET dS == Fillna0(Diff(res.S))
        dD == Fillna0(Diff(res.D))
    IN  [S |-> res.S, D |-> res.D,
         new_cases |-> [p \in 1..Len(dS) |-> 0 - dS[p]],
         new_deaths |-> dD,
         cases |-> [p \in 1..Len(res.S) |-> res.S[1] - res.S[p]],
         deaths |-> [p \in 1..Len(res.D) |-> res.D[p] - res.D[1]]]

Processed(file) == file # NoFile /\ "new_cases" \in DOMAIN file

\* run_simulation(path) for the directory of region r, given what the
\* executable did: run() returns its exit status, which is not looked at;
\* read_csv raises when the file is missing, iloc[0] when it has no row.
RunSimulation(r, outcome) ==
    LET file == IF outcome.wrote = NoFile THEN csv[r] ELSE outcome.wrote
        fails == file = NoFile \/ Len(file.S) = 0
    IN  /\ exit_code' = [exit_code EXCEPT ![r] = outcome.code]
        /\ csv' = [csv EXCEPT ![r] = IF fails THEN file ELSE PostProcess(file)]
        /\ task' = [task EXCEPT ![r] = IF fails THEN "raised" ELSE "finished"]

----------------------------------------------------------------------------
(* Inputs *)

\* running totals of a sequence of increments
Cumulate(incs) == [p \in 1..Len(incs) |-> Sum(SubSeq(incs, 1, p))]

IFRs == {<<1, 2>>, <<2, 3>>}

Populations == {1000}

FlatHistogram == [b \in 1..AGE_BINS + 1 |-> 1]

\* a histogram of len bins: flat, with the bins of raisedBins one higher
Histogram(len, base, raisedBins) ==
    [b \in 1..len |-> base + (IF b \in raisedBins THEN 1 ELSE 0)]

Region(age, means, IFR, population) ==
    [age_distribution |-> age, window_means |-> means, IFR |-> IFR,
     population |-> population]

SampleRegion ==
    Region(FlatHistogram, Cumulate(<<0, 1, 1, 2>>), <<1, 2>>, 1000)

\* the regions of a batch: one that prepares, one whose daily series is all
\* zero, one whose histogram is a bin short
BatchRegions ==
    {SampleRegion,
     Region(FlatHistogram, Cumulate(<<1, 0, 0>>), <<1, 2>>, 1000),
     Region(SubSeq(FlatHistogram, 1, AGE_BINS - 1), Cumulate(<<0, 1, 1, 2>>),
            <<1, 2>>, 1000)}

\* What the executable did: its exit status and the file it wrote, if any.
\* With status 0 it has written its output, otherwise it may have written a
\* part of it or nothing.
Outcome(code, wrote) == [code |-> code, wrote |-> wrote]

BatchOutputs ==
    {[S |-> <<9, 7, 4>>, D |-> <<0, 1, 1>>], [S |-> <<9>>, D |-> <<0>>]}

BatchOutcomes ==
    {Outcome(0, w) : w \in BatchOutputs}
    \cup {Outcome(1, w) : w \in BatchOutputs \cup {NoFile}}

----------------------------------------------------------------------------
(* prepare_all *)

\* sorted(states)
RECURSIVE Sorted(_)
Sorted(S) ==
    IF S = {} THEN << >>
    ELSE LET m == CHOOSE x \in S : \A y \in S : x <= y
         IN  <<m>> \o Sorted(S \ {m})

\* the first loop left after one region
PrepareLoopDoneEarly == k > 1

\* the first for loop has gone through every state
PrepareLoopDone == k > Len(Sorted(states))

\* One iteration of the first loop: mkdir, prepare_region, paths.append.  An
\* exception of prepare_region leaves the loop and prepare_all.
Prepare ==
    /\ pc = "prepare"
    /\ ~PrepareLoopDone
    /\ LET r == Sorted(states)[k]
           f == PrepareRegion(catalog[r])
       IN  /\ frame' = [frame EXCEPT ![r] = f]
           /\ IF f.error = "none"
              THEN /\ conf' = [conf EXCEPT ![r] = ConfToml(f)]
                   /\ paths' = Append(paths, r)
                   /\ k' = k + 1
                   /\ pc' = pc
              ELSE /\ pc' = "crashed"
                   /\ UNCHANGED <<conf, paths, k>>
    /\ UNCHANGED <<states, catalog, futures, task, exit_code, csv>>

\* with ThreadPoolExecutor() as executor
EnterPool ==
    /\ pc = "prepare"
    /\ PrepareLoopDone
    /\ pc' = "submit"
    /\ k' = 1
    /\ UNCHANGED <<states, catalog, paths, frame, conf, futures, task,
                   exit_code, csv>>

\* futures.append(executor.submit(run_simulation, path=path))
Submit ==
    /\ pc = "submit"
    /\ k <= Len(paths)
    /\ futures' = Append(futures, paths[k])
    /\ task' = [task EXCEPT ![paths[k]] = "pending"]
    /\ k' = k + 1
    /\ UNCHANGED <<states, catalog, pc, paths, frame, conf, exit_code, csv>>

\* the end of the with block: executor.shutdown(wait=True) starts waiting
ExitPool ==
    /\ pc = "submit"
    /\ k > Len(paths)
    /\ pc' = "join"
    /\ UNCHANGED <<states, catalog, k, paths, frame, conf, futures, task,
                   exit_code, csv>>

\* every worker is through: prepare_all returns.  No future's result is read.
Join ==
    /\ pc = "join"
    /\ \A p \in 1..Len(futures) : task[futures[p]] \in {"finished", "raised"}
    /\ pc' = "done"
    /\ UNCHANGED <<states, catalog, k, paths, frame, conf, futures, task,
                   exit_code, csv>>

\* A free worker takes the oldest queued task and starts the executable.
SimStart ==
    /\ pc \in {"submit", "join"}
    /\ Cardinality({r \in states : task[r] = "running"}) < MaxWorkers
    /\ \E p \in 1..Len(futures) :
          /\ task[futures[p]] = "pending"
          /\ \A q \in 1..(p - 1) : task[futures[q]] # "pending"
          /\ task' = [task EXCEPT ![futures[p]] = "running"]
    /\ UNCHANGED <<states, catalog, pc, k, paths, frame, conf, futures,
                   exit_code, csv>>

\* The executable of a running task exits and the worker post-processes.
SimFinish ==
    /\ \E r \in states :
          /\ task[r] = "running"
          /\ \E outcome \in BatchOutcomes : RunSimulation(r, outcome)
    /\ UNCHANGED <<states, catalog, pc, k, paths, frame, conf, futures>>

----------------------------------------------------------------------------
(* prepare_region and run_simulation called on their own *)

CallPrepareRegion ==
    /\ pc = "call prepare_region"
    /\ \E r \in states :
          LET f == PrepareRegion(catalog[r])
          IN  /\ frame' = [frame EXCEPT ![r] = f]
              /\ conf' = [conf EXCEPT ![r] =
                             IF f.error = "none" THEN ConfToml(f) ELSE @]
              /\ pc' = IF f.error = "none" THEN "returned" ELSE "raised"
    /\ UNCHANGED <<states, catalog, k, paths, futures, task, exit_code, csv>>

\* the executable writes S and D columns of up to MaxDays rows, or fails
\* without writing
CallRunSimulation ==
    /\ pc = "call run_simulation"
    /\ \E r \in states :
          /\ \/ \E code \in {0, 1}, len \in 0..MaxDays :
                   \E s \in [1..len -> 0..MaxCount], d \in [1..len -> 0..MaxCount] :
                       RunSimulation(r, Outcome(code, [S |-> s, D |-> d]))
             \/ RunSimulation(r, Outcome(1, NoFile))
          /\ pc' = IF task'[r] = "finished" THEN "returned" ELSE "raised"
    /\ UNCHANGED <<states, catalog, k, paths, frame, conf, futures>>

----------------------------------------------------------------------------
(* Specifications *)

Start(ids, at) ==
    /\ states = ids
    /\ pc = at
    /\ k = 1
    /\ paths = << >>
    /\ frame = [r \in ids |-> NotCalled]
    /\ conf = [r \in ids |-> NoFile]
    /\ futures = << >>
    /\ task = [r \in ids |-> "none"]
    /\ exit_code = [r \in ids |-> NotRun]
    /\ csv = [r \in ids |-> NoFile]

\* prepare_all over a batch of regions
Init ==
    /\ Start(1..NumRegions, "prepare")
    /\ catalog \in [1..NumRegions -> BatchRegions]

Next == Prepare \/ EnterPool \/ Submit \/ ExitPool \/ Join \/ SimStart \/ SimFinish

Spec == Init /\ [][Next]_vars

\* prepare_region on every death curve whose window means are non-decreasing
\* in steps of 0 or 1, one fixed histogram
InitCurve ==
    /\ Start({1}, "call prepare_region")
    /\ \E len \in 0..MaxValid :
          \E incs \in [1..len -> 0..1], f \in IFRs, p \in Populations :
              catalog = [r \in {1} |-> Region(FlatHistogram, Cumulate(incs), f, p)]

SpecCurve == InitCurve /\ [][CallPrepareRegion]_vars

\* prepare_region on every histogram of AGE_BINS - 1 .. MaxBins bins that is
\* flat but for up to two bins, one fixed death curve
InitAge ==
    /\ Start({1}, "call prepare_region")
    /\ \E len \in (AGE_BINS - 1)..MaxBins, base \in 0..1 :
          \E b1 \in 0..len, b2 \in 0..len, p \in Populations :
              catalog = [r \in {1} |->
                            Region(Histogram(len, base, {b1, b2}),
                                   SampleRegion.window_means, SampleRegion.IFR, p)]

SpecAge == InitAge /\ [][CallPrepareRegion]_vars

\* run_simulation on every output of the executable
InitSim ==
    /\ Start({1}, "call run_simulation")
    /\ catalog = [r \in {1} |-> SampleRegion]

SpecSim == InitSim /\ [][CallRunSimulation]_vars

----------------------------------------------------------------------------
(* Properties *)

Called(r) == frame[r].error # "not called"

Wrote(r) == frame[r].error = "none" /\ conf[r] # NoFile

Half == WINDOW_SIZE \div 2

\* C1: whenever the daily series has a non-zero entry away from its first and
\* last position, the curve written to conf.toml is non-empty, starts and
\* ends with a non-zero entry and is the slice from the first non-zero
\* position to the last kept position, that one included.
C1_NoBoundaryZeros ==
    \A r \in states :
        LET f == frame[r]
            e == f.epicurve
            d == conf[r].epicurve_data
        IN  (Called(r) /\ \E p \in 2..(Len(e) - 1) : e[p] # 0) =>
                /\ Wrote(r)
                /\ d # << >>
                /\ d[1] # 0
                /\ d[Len(d)] # 0

\* C4: an all-zero daily series makes prepare_region fail with a DataError,
\* without reading outside the series and without writing conf.toml.
C4_AllZeroIsDataError ==
    \A r \in states :
        LET f == frame[r]
            e == f.epicurve
        IN  (Called(r) /\ e # << >> /\ \A p \in 1..Len(e) : e[p] = 0) =>
                /\ f.error = "DataError"
                /\ f.i < Len(e)
                /\ conf[r] = NoFile

\* C6: the delay written to conf.toml is the number of positions of the daily
\* series after the position the last emitted entry comes from.
C6_DelayIsExcludedDays ==
    \A r \in states :
        LET f == frame[r]
        IN  (Wrote(r) /\ f.kept # << >>) =>
                conf[r].delay = Len(f.epicurve) - 1 - f.kept[Len(f.kept)]

\* C9: with a trailing zero run (n > 0) every emitted entry comes from a
\* position between i and j - window/2, and nothing is emitted when
\* j < window/2.
C9_TruncatedToHalfWindow ==
    \A r \in states :
        LET f == frame[r]
            n == Len(f.epicurve) - f.j - 1
        IN  (Wrote(r) /\ n > 0) =>
                /\ Len(conf[r].epicurve_data) = Len(f.kept)
                /\ \A p \in 1..Len(f.kept) :
                      /\ f.i <= f.kept[p]
                      /\ f.kept[p] <= f.j - Half
                      /\ conf[r].epicurve_data[p] = f.epicurve[f.kept[p] + 1]
                /\ f.j < Half => conf[r].epicurve_data = << >>

\* a trailing zero run whose truncation leaves something to emit
C9_Witness ==
    \E r \in states :
        /\ Wrote(r)
        /\ Len(frame[r].epicurve) - frame[r].j - 1 > 0
        /\ conf[r].epicurve_data # << >>

\* The scan for the first non-zero entry never stops inside the first
\* window/2 + 1 positions: bfill repeats the first window mean over them.
ScanStartsPastHalfWindow ==
    \A r \in states : frame[r].error = "none" => frame[r].i > Half

\* C10 as stated: the daily series starts with the first cumulative value, so
\* it sums to the last cumulative value.
C10_FirstDeltaIsFirstValue ==
    \A r \in states :
        LET f == frame[r]
            c == f.cases
            e == f.epicurve
        IN  (Called(r) /\ c # << >>) =>
                /\ Len(e) = Len(c)
                /\ e[1] = c[1]
                /\ \A p \in 2..Len(c) : e[p] = c[p] - c[p - 1]
                /\ Sum(e) = c[Len(c)]

\* C10 amended: the daily series starts with 0 and has the day-over-day
\* difference at every later position, so it sums to the last cumulative
\* value minus the first one.
C10_FirstDeltaIsZero ==
    \A r \in states :
        LET f == frame[r]
            c == f.cases
            e == f.epicurve
        IN  (Called(r) /\ c # << >>) =>
                /\ Len(e) = Len(c)
                /\ e[1] = 0
                /\ \A p \in 2..Len(c) : e[p] = c[p] - c[p - 1]
                /\ Sum(e) = c[Len(c)] - c[1]

\* a curve whose first cumulative value is not zero and which grows
C10_Witness ==
    \E r \in states :
        LET c == frame[r].cases
        IN  /\ Wrote(r)
            /\ c[1] # 0
            /\ c[Len(c)] > c[1]

\* C7: a histogram of at least 18 bins gives 9 buckets, bucket b the sum of
\* bins 2b and 2b + 1 (counted from 0), the last one with every bin from 18
\* on added, so the buckets sum to the histogram; the flat 19-bin histogram
\* of ones gives 2, 2, 2, 2, 2, 2, 2, 2, 3.
C7_NineBuckets ==
    \A r \in states :
        LET a == catalog[r].age_distribution
            b == conf[r].pop_counts
        IN  (Called(r) /\ Len(a) >= 18) =>
                /\ Wrote(r)
                /\ Len(b) = 9
                /\ \A q \in 1..8 : b[q] = a[2 * q - 1] + a[2 * q]
                /\ b[9] = a[17] + a[18] + Sum(SubSeq(a, 19, Len(a)))
                /\ Sum(b) = Sum(a)
                /\ a = [q \in 1..19 |-> 1] => b = <<2, 2, 2, 2, 2, 2, 2, 2, 3>>

\* a histogram with a non-empty bin past the 18th has been re-bucketed
C7_Witness ==
    \E r \in states :
        /\ Wrote(r)
        /\ Len(catalog[r].age_distribution) > 18
        /\ catalog[r].age_distribution[19] > 0
        /\ conf[r].pop_counts[9] > conf[r].pop_counts[8]

\* C8: in a post-processed epicurve.csv the first new_cases and new_deaths
\* are 0, the later ones are S[t-1] - S[t] and D[t] - D[t-1], cases is
\* S[0] - S[t] and deaths D[t] - D[0]; the running sums of new_cases and
\* new_deaths are cases and deaths.
C8_DerivedColumns ==
    \A r \in states :
        LET f == csv[r]
            days == 1..Len(f.S)
        IN  (task[r] = "finished") =>
                /\ Processed(f)
                /\ Len(f.new_cases) = Len(f.S) /\ Len(f.new_deaths) = Len(f.S)
                /\ Len(f.cases) = Len(f.S) /\ Len(f.deaths) = Len(f.S)
                /\ f.new_cases[1] = 0
                /\ f.new_deaths[1] = 0
                /\ \A t \in days \ {1} :
                      /\ f.new_cases[t] = f.S[t - 1] - f.S[t]
                      /\ f.new_deaths[t] = f.D[t] - f.D[t - 1]
                /\ \A t \in days :
                      /\ f.cases[t] = f.S[1] - f.S[t]
                      /\ f.deaths[t] = f.D[t] - f.D[1]
                      /\ Sum(SubSeq(f.new_cases, 1, t)) = f.cases[t]
                      /\ Sum(SubSeq(f.new_deaths, 1, t)) = f.deaths[t]

\* an output of several days in which S falls and D rises
C8_Witness ==
    \E r \in states :
        /\ task[r] = "finished"
        /\ Len(csv[r].S) >= 3
        /\ csv[r].S[1] > csv[r].S[2]
        /\ csv[r].D[2] < csv[r].D[3]

\* C5: regions are prepared in increasing order of identifier, and no
\* run_simulation is queued or started before every region of the batch has
\* been prepared and has its conf.toml.
C5_PrepareBeforeRun ==
    /\ \A r \in states :
          Called(r) => \A q \in states : q < r => Wrote(q)
    /\ \A p \in 1..Len(paths) : \A q \in 1..(p - 1) : paths[q] < paths[p]
    /\ (\E r \in states : task[r] # "none") => \A q \in states : Wrote(q)

\* a simulation runs while the main thread is still submitting or waiting
C5_Witness ==
    /\ \E r \in states : task[r] = "running"
    /\ Cardinality(states) > 1
    /\ pc \in {"submit", "join"}

\* C2: when the executable exits non-zero for exactly one region, exactly
\* that region ends as failed, its output not post-processed, and every
\* other region's run_simulation completes and rewrites its file.
C2_FailureIsolated ==
    (/\ pc = "done"
     /\ Cardinality({r \in states : exit_code[r] \notin {0, NotRun}}) = 1) =>
        \A r \in states :
            IF exit_code[r] = 0
            THEN task[r] = "finished" /\ Processed(csv[r])
            ELSE task[r] = "raised" /\ ~Processed(csv[r])

\* C3: a failure of prepare_region stops that region only: when prepare_all
\* is over every region has been tried and every region that was prepared
\* has had its run_simulation submitted.
C3_PrepareFailureIsolated ==
    pc \in {"done", "crashed"} =>
        \A r \in states :
            /\ Called(r)
            /\ frame[r].error = "none" => task[r] # "none"

====
